---- MODULE Spec2Model ----
(***************************************************************************)
(* Model of static/evaluation.js: the controller of the evaluation         *)
(* dashboard.  The page is one record of DOM state; every event handler    *)
(* and every continuation of an async function (the code between two       *)
(* awaits) is one atomic action, as the event loop runs it to completion.  *)
(*                                                                         *)
(* Metric values are integers in units of 1/Scale.  A JS object is a       *)
(* record; an absent property is a field missing from its DOMAIN.  An      *)
(* object that is iterated (per_query, the metrics documentation) is the   *)
(* sequence of its entries in iteration order.                             *)
(***************************************************************************)
EXTENDS Integers, Sequences, FiniteSets, Bags, TLC

\* Bounds of the model: how many clicks on each button a behaviour holds.
MaxRuns == 2
MaxInfos == 1

Runs == 1..MaxRuns
Infos == 1..MaxInfos

\* Number of value units in 1.0 (values are ten-thousandths).
Scale == 10000

VARIABLES
    page,       \* the DOM: class lists, text and children of the elements used
    runs,       \* runEvaluation invocations: position and the calls made so far
    infos,      \* showMetricsInfo invocations: position
    requests,   \* HTTP requests issued so far: how many of each
    call        \* a function of the controller called on its own: its name,
                \* its argument and <<result>> once it has returned

vars == <<page, runs, infos, requests, call>>

NoExc == "none"

(***************************************************************************)
(* Running code: m is [page, log, exc], the DOM, the calls made by the     *)
(* handler being run, and the exception being propagated (NoExc if none).  *)
(***************************************************************************)
Machine(p) == [page |-> p, log |-> <<>>, exc |-> NoExc]

Call(m, name) == [m EXCEPT !.log = Append(@, name)]

Throw(m, message) == [m EXCEPT !.exc = message]

showLoading(m) ==
    [Call(m, "showLoading") EXCEPT !.page.loadingElement.hidden = FALSE]

hideLoading(m) ==
    [Call(m, "hideLoading") EXCEPT !.page.loadingElement.hidden = TRUE]

showResults(m) ==
    [Call(m, "showResults") EXCEPT !.page.resultsElement.hidden = FALSE]

hideResults(m) ==
    [Call(m, "hideResults") EXCEPT !.page.resultsElement.hidden = TRUE]

\* showError that sets the text and leaves the banner hidden.
showError_KeepsHidden(m, message) ==
    [Call(m, "showError") EXCEPT !.page.errorMessageElement.textContent = message]

showError(m, message) ==
    [Call(m, "showError") EXCEPT !.page.errorMessageElement.textContent = message,
                                 !.page.errorMessageElement.hidden = FALSE]

hideError(m) ==
    [Call(m, "hideError") EXCEPT !.page.errorMessageElement.hidden = TRUE]

(***************************************************************************)
(* Classifier and text helpers.  Cyrillic literals of the source are       *)
(* written in Latin transliteration.                                       *)
(***************************************************************************)
\* getValueClass with strict comparisons: a boundary value falls into the
\* lower tier.
getValueClass_Strict(value) ==
    IF value * 10 > 7 * Scale THEN "high"
    ELSE IF value * 10 > 4 * Scale THEN "medium"
    ELSE "low"

getValueClass(value) ==
    IF value * 10 >= 7 * Scale THEN "high"
    ELSE IF value * 10 >= 4 * Scale THEN "medium"
    ELSE "low"

getStatusClass(value) ==
    IF value * 10 >= 8 * Scale THEN "status-excellent"
    ELSE IF value * 10 >= 6 * Scale THEN "status-good"
    ELSE IF value * 10 >= 4 * Scale THEN "status-fair"
    ELSE "status-poor"

\* getStatusText with the middle threshold of getValueClass (0.7 for 0.6).
getStatusText_OtherThreshold(value) ==
    IF value * 10 >= 8 * Scale THEN "Otlichno"
    ELSE IF value * 10 >= 7 * Scale THEN "Horosho"
    ELSE IF value * 10 >= 4 * Scale THEN "Udovletvoritelno"
    ELSE "Ploho"

getStatusText(value) ==
    IF value * 10 >= 8 * Scale THEN "Otlichno"
    ELSE IF value * 10 >= 6 * Scale THEN "Horosho"
    ELSE IF value * 10 >= 4 * Scale THEN "Udovletvoritelno"
    ELSE "Ploho"

truncateText(text, maxLength) ==
    IF Len(text) > maxLength THEN SubSeq(text, 1, maxLength) \o "..." ELSE text

\* Number.prototype.toFixed(3) of value/Scale: the value rounded to
\* thousandths and written with exactly three decimals.  (For a value that
\* lies exactly between two thousandths the direction depends on the binary
\* expansion of the double; the payloads below hold no such value.)
toFixed3(value) ==
    LET t == (value * 1000 + Scale \div 2) \div Scale
        f == t % 1000
    IN  ToString(t \div 1000) \o "."
        \o (IF f < 10 THEN "00" ELSE IF f < 100 THEN "0" ELSE "") \o ToString(f)

\* Reading a numeric property in a template literal: the number in decimal;
\* an absent property prints as "undefined".
Interpolate(obj, key) ==
    IF key \in DOMAIN obj THEN ToString(obj[key]) ELSE "undefined"

\* Reading a string property in a template literal: the string itself.
InterpolateText(obj, key) ==
    IF key \in DOMAIN obj THEN obj[key] ELSE "undefined"

(***************************************************************************)
(* Report assembler.                                                       *)
(***************************************************************************)
MetricList ==
    << [key |-> "precision", name |-> "Precision", description |-> "Tochnost"],
       [key |-> "recall",    name |-> "Recall",    description |-> "Polnota"],
       [key |-> "f_measure", name |-> "F-measure", description |-> "F-mera"],
       [key |-> "accuracy",  name |-> "Accuracy",  description |-> "Akkuratnost"] >>

\* The forEach of displayMacroMetrics from the k-th metric on: one card is
\* appended per metric; toFixed of an absent value throws and ends the loop
\* with the cards appended so far left in the container.
RECURSIVE MacroCards(_, _, _, _)
MacroCards(m, macroMetrics, operator, k) ==
    IF k > Len(MetricList) THEN m
    ELSE LET metric == MetricList[k] IN
         IF metric.key \notin DOMAIN macroMetrics
         THEN Throw(m, "Cannot read properties of undefined (reading 'toFixed')")
         ELSE LET value == macroMetrics[metric.key]
                  metricCard ==
                      [ metricName  |-> metric.description,
                        valueClass  |-> getValueClass(value),
                        metricValue |-> toFixed3(value),
                        metricDesc  |-> metric.name,
                        operatorInfo |-> "Operator: " \o operator ]
              IN  MacroCards([m EXCEPT !.page.macroMetrics = Append(@, metricCard)],
                             macroMetrics, operator, k + 1)

\* displayMacroMetrics that does not empty the container first.
displayMacroMetrics_Accumulates(m, macroMetrics, operator) ==
    LET m1 == Call(m, "displayMacroMetrics")
    IN  IF macroMetrics = <<>>
        THEN Throw(m1, "Cannot read properties of undefined (reading 'precision')")
        ELSE MacroCards(m1, macroMetrics[1], operator, 1)

\* An argument that may be undefined is <<>> when it is, <<o>> for the
\* object o otherwise.
displayMacroMetrics(m, macroMetrics, operator) ==
    LET m1 == [Call(m, "displayMacroMetrics") EXCEPT !.page.macroMetrics = <<>>]
    IN  IF macroMetrics = <<>>
        THEN Throw(m1, "Cannot read properties of undefined (reading 'precision')")
        ELSE MacroCards(m1, macroMetrics[1], operator, 1)

Truthy(obj, key) == key \in DOMAIN obj /\ obj[key] # ""

\* displayPlots that does not empty the container first.
displayPlots_KeepsPanels(m, plots, operator) ==
    LET m1 == Call(m, "displayPlots")
    IN  IF plots = <<>>
        THEN Throw(m1, "Cannot read properties of undefined (reading 'precision_recall')")
        ELSE LET p == plots[1]
                 pr == [ h4  |-> "Precision-Recall po zaprosam (Operator: " \o operator \o ")",
                         src |-> "data:image/png;base64," \o p.precision_recall,
                         alt |-> "Precision-Recall Plot" ]
                 mc == [ h4  |-> "Sravnenie metrik kachestva (Operator: " \o operator \o ")",
                         src |-> "data:image/png;base64," \o p.metrics_comparison,
                         alt |-> "Metrics Comparison Plot" ]
                 m2 == IF Truthy(p, "precision_recall")
                       THEN [m1 EXCEPT !.page.plotsContainer = Append(@, pr)]
                       ELSE m1
             IN  IF Truthy(p, "metrics_comparison")
                 THEN [m2 EXCEPT !.page.plotsContainer = Append(@, mc)]
                 ELSE m2

\* displayPlots with the two blocks exchanged.
displayPlots_ComparisonFirst(m, plots, operator) ==
    LET m1 == [Call(m, "displayPlots") EXCEPT !.page.plotsContainer = <<>>]
    IN  IF plots = <<>>
        THEN Throw(m1, "Cannot read properties of undefined (reading 'precision_recall')")
        ELSE LET p == plots[1]
                 pr == [ h4  |-> "Precision-Recall po zaprosam (Operator: " \o operator \o ")",
                         src |-> "data:image/png;base64," \o p.precision_recall,
                         alt |-> "Precision-Recall Plot" ]
                 mc == [ h4  |-> "Sravnenie metrik kachestva (Operator: " \o operator \o ")",
                         src |-> "data:image/png;base64," \o p.metrics_comparison,
                         alt |-> "Metrics Comparison Plot" ]
                 m2 == IF Truthy(p, "metrics_comparison")
                       THEN [m1 EXCEPT !.page.plotsContainer = Append(@, mc)]
                       ELSE m1
             IN  IF Truthy(p, "precision_recall")
                 THEN [m2 EXCEPT !.page.plotsContainer = Append(@, pr)]
                 ELSE m2

displayPlots(m, plots, operator) ==
    LET m1 == [Call(m, "displayPlots") EXCEPT !.page.plotsContainer = <<>>]
    IN  IF plots = <<>>
        THEN Throw(m1, "Cannot read properties of undefined (reading 'precision_recall')")
        ELSE LET p == plots[1]
                 pr == [ h4  |-> "Precision-Recall po zaprosam (Operator: " \o operator \o ")",
                         src |-> "data:image/png;base64," \o p.precision_recall,
                         alt |-> "Precision-Recall Plot" ]
                 mc == [ h4  |-> "Sravnenie metrik kachestva (Operator: " \o operator \o ")",
                         src |-> "data:image/png;base64," \o p.metrics_comparison,
                         alt |-> "Metrics Comparison Plot" ]
                 m2 == IF Truthy(p, "precision_recall")
                       THEN [m1 EXCEPT !.page.plotsContainer = Append(@, pr)]
                       ELSE m1
             IN  IF Truthy(p, "metrics_comparison")
                 THEN [m2 EXCEPT !.page.plotsContainer = Append(@, mc)]
                 ELSE m2

\* The value the document holds for an attribute written as name="${text}"
\* in markup assigned to innerHTML: the text is not escaped, so the value
\* ends at the first double quote of the text.
AttributeValue(text) ==
    LET quotes == { i \in 1..Len(text) : SubSeq(text, i, i) = "\"" }
    IN  IF quotes = {} THEN text
        ELSE SubSeq(text, 1, (CHOOSE i \in quotes : \A j \in quotes : i <= j) - 1)

\* One <tr> of the detailed table.
TableRow(query, metrics) ==
    [ title  |-> AttributeValue(query),
      label  |-> truncateText(query, 30),
      cells  |-> [ i \in 1..Len(MetricList) |->
                     [ class |-> getValueClass(metrics[MetricList[i].key]),
                       text  |-> toFixed3(metrics[MetricList[i].key]) ] ],
      stats  |-> Interpolate(metrics, "true_positive") \o "/"
                 \o Interpolate(metrics, "false_positive") \o "/"
                 \o Interpolate(metrics, "false_negative"),
      statusClass |-> getStatusClass(metrics.f_measure),
      statusText  |-> getStatusText(metrics.f_measure) ]

\* The forEach of displayDetailedMetrics from the k-th entry on: one row is
\* appended to rows per entry; exc is set, and the loop ended, when toFixed
\* of an absent metric throws.
RECURSIVE TableRows(_, _, _)
TableRows(entries, k, rows) ==
    IF k > Len(entries) THEN [rows |-> rows, exc |-> NoExc]
    ELSE LET query == entries[k][1]
             metrics == entries[k][2]
         IN  IF \E i \in 1..Len(MetricList) : MetricList[i].key \notin DOMAIN metrics
             THEN [rows |-> rows,
                   exc |-> "Cannot read properties of undefined (reading 'toFixed')"]
             ELSE TableRows(entries, k + 1, Append(rows, TableRow(query, metrics)))

\* displayDetailedMetrics without the test for an empty object: a table with
\* headers only.
displayDetailedMetrics_HeadersOnly(m, perQueryMetrics, operator) ==
    LET m1 == Call(m, "displayDetailedMetrics")
    IN  IF perQueryMetrics = <<>>
        THEN Throw(m1, "Cannot convert undefined or null to object")
        ELSE LET t == TableRows(perQueryMetrics[1], 1, <<>>) IN
             IF t.exc # NoExc
             THEN Throw(m1, t.exc)
             ELSE [m1 EXCEPT !.page.detailedMetrics =
                       << [tag |-> "table", rows |-> t.rows] >>]

displayDetailedMetrics(m, perQueryMetrics, operator) ==
    LET m1 == Call(m, "displayDetailedMetrics")
    IN  IF perQueryMetrics = <<>>
        THEN Throw(m1, "Cannot convert undefined or null to object")
        ELSE LET entries == perQueryMetrics[1] IN
             IF Len(entries) = 0
             THEN [m1 EXCEPT !.page.detailedMetrics =
                       << [tag |-> "p", text |-> "Net dannyh dlya otobrazheniya"] >>]
             ELSE LET t == TableRows(entries, 1, <<>>) IN
                  IF t.exc # NoExc
                  THEN Throw(m1, t.exc)
                  ELSE [m1 EXCEPT !.page.detailedMetrics =
                            << [tag |-> "table", rows |-> t.rows] >>]

\* obj.key as an optional value: <<>> when the property is absent.
Get(obj, key) == IF key \in DOMAIN obj THEN <<obj[key]>> ELSE <<>>

\* displayResults that assembles the report and never reveals the panel.
displayResults_NoShow(m, metrics, plots, operator) ==
    LET m0 == Call(m, "displayResults") IN
    IF metrics = <<>>
    THEN Throw(m0, "Cannot read properties of undefined (reading 'macro')")
    ELSE LET m1 == displayMacroMetrics(m0, Get(metrics[1], "macro"), operator) IN
         IF m1.exc # NoExc THEN m1
         ELSE LET m2 == displayPlots(m1, plots, operator) IN
              IF m2.exc # NoExc THEN m2
              ELSE displayDetailedMetrics(m2, Get(metrics[1], "per_query"), operator)

\* displayResults that reveals the panel before it assembles the sections.
displayResults_ShowsFirst(m, metrics, plots, operator) ==
    LET m0 == showResults(Call(m, "displayResults")) IN
    IF metrics = <<>>
    THEN Throw(m0, "Cannot read properties of undefined (reading 'macro')")
    ELSE LET m1 == displayMacroMetrics(m0, Get(metrics[1], "macro"), operator) IN
         IF m1.exc # NoExc THEN m1
         ELSE LET m2 == displayPlots(m1, plots, operator) IN
              IF m2.exc # NoExc THEN m2
              ELSE displayDetailedMetrics(m2, Get(metrics[1], "per_query"), operator)

displayResults(m, metrics, plots, operator) ==
    LET m0 == Call(m, "displayResults") IN
    IF metrics = <<>>
    THEN Throw(m0, "Cannot read properties of undefined (reading 'macro')")
    ELSE LET m1 == displayMacroMetrics(m0, Get(metrics[1], "macro"), operator) IN
         IF m1.exc # NoExc THEN m1
         ELSE LET m2 == displayPlots(m1, plots, operator) IN
              IF m2.exc # NoExc THEN m2
              ELSE LET m3 == displayDetailedMetrics(m2, Get(metrics[1], "per_query"),
                                                    operator)
                   IN  IF m3.exc # NoExc THEN m3 ELSE showResults(m3)


\* metricsInfo is <<>> for null, <<entries>> for an object; an entry is
\* <<key, info>> with info <<>> for null, <<object>> otherwise.
RECURSIVE InfoEntries(_, _, _)
InfoEntries(m, entries, k) ==
    IF k > Len(entries) THEN m
    ELSE LET info == entries[k][2] IN
         IF info = <<>>
         THEN Throw(m, "Cannot read properties of null (reading 'name')")
         ELSE LET metricDiv == [ h4      |-> InterpolateText(info[1], "name"),
                                 p       |-> InterpolateText(info[1], "description"),
                                 formula |-> InterpolateText(info[1], "formula") ]
              IN  InfoEntries([m EXCEPT !.page.metricsInfo = Append(@, metricDiv)],
                              entries, k + 1)

\* displayMetricsInfo that opens the modal before it renders.
displayMetricsInfo_OpensFirst(m, metricsInfo) ==
    LET m1 == [Call(m, "displayMetricsInfo") EXCEPT !.page.metricsInfo = <<>>,
                                                    !.page.metricsModal.hidden = FALSE]
    IN  IF metricsInfo = <<>>
        THEN Throw(m1, "Cannot convert undefined or null to object")
        ELSE InfoEntries(m1, metricsInfo[1], 1)

displayMetricsInfo(m, metricsInfo) ==
    LET m1 == [Call(m, "displayMetricsInfo") EXCEPT !.page.metricsInfo = <<>>]
    IN  IF metricsInfo = <<>>
        THEN Throw(m1, "Cannot convert undefined or null to object")
        ELSE LET m2 == InfoEntries(m1, metricsInfo[1], 1) IN
             IF m2.exc # NoExc THEN m2
             ELSE [m2 EXCEPT !.page.metricsModal.hidden = FALSE]

(***************************************************************************)
(* What the network can answer.                                            *)
(***************************************************************************)
MacroA == [precision |-> 8200, recall |-> 6500, f_measure |-> 7250, accuracy |-> 9000]

QueryA ==
    [ precision |-> 9000, recall |-> 5000, f_measure |-> 6430, accuracy |-> 9500,
      true_positive |-> 9, false_positive |-> 1, false_negative |-> 9 ]

\* Scenario A of the documentation: one plot, one query.
ResponseA ==
    [ success |-> TRUE,
      metrics |-> [macro |-> MacroA, per_query |-> << <<"q1", QueryA>> >>],
      plots |-> [precision_recall |-> "iVBORw0KGgo"],
      operator |-> "AND" ]

MacroC == [precision |-> 3000, recall |-> 4000, f_measure |-> 3430, accuracy |-> 7000]

\* Scenario C: no per-query data; both plots.
ResponseC ==
    [ success |-> TRUE,
      metrics |-> [macro |-> MacroC, per_query |-> <<>>],
      plots |-> [precision_recall |-> "iVBORw0KGgo", metrics_comparison |-> "R0lGODlh"],
      operator |-> "AND" ]

\* success: true with no metrics: assembling throws.
ResponseNoMetrics == [success |-> TRUE, operator |-> "AND"]

\* Scenario B and a second application failure.
ResponseB == [success |-> FALSE, error |-> "qrels not found"]

ResponseB2 == [success |-> FALSE, error |-> "unknown operator"]

EvaluateBodies == {ResponseA, ResponseC, ResponseNoMetrics, ResponseB, ResponseB2}

\* Messages of the exceptions fetch() and response.json() reject with.
FetchErrors == {"Failed to fetch"}

JsonErrors == {"Unexpected token < in JSON at position 0"}

InfoA ==
    << << <<"precision", <<[name |-> "Precision", description |-> "Tochnost",
                            formula |-> "TP / (TP + FP)"]>> >> >> >>

\* A second entry that is null: rendering throws after the first entry was
\* appended.
InfoNullEntry ==
    << << <<"precision", <<[name |-> "Precision", description |-> "Tochnost",
                            formula |-> "TP / (TP + FP)"]>> >>,
          <<"recall", <<>> >> >> >>

\* The last body is the JSON text null.
InfoBodies == {InfoA, InfoNullEntry, <<>>}

\* Targets a click can have, as far as the window listener tells them apart.
ClickTargets == {"metricsModal", "modalContent", "body"}


(***************************************************************************)
(* The page after DOMContentLoaded: every panel and the modal carry the    *)
(* class "hidden", the containers are empty, nothing was requested.        *)
(***************************************************************************)
InitialPage ==
    [ loadingElement      |-> [hidden |-> TRUE],
      resultsElement      |-> [hidden |-> TRUE],
      errorMessageElement |-> [hidden |-> TRUE, textContent |-> ""],
      metricsModal        |-> [hidden |-> TRUE],
      macroMetrics        |-> <<>>,
      plotsContainer      |-> <<>>,
      detailedMetrics     |-> <<>>,
      metricsInfo         |-> <<>> ]

\* An invocation of an async function: pc is "idle" before the click,
\* "fetch" while fetch() is awaited, "json" while response.json() is
\* awaited, "done" when the function has returned.  Of a runEvaluation
\* invocation, trace is the calls it made, in order, and uncaught is the
\* exception the function itself rejected with.
NotStarted == [pc |-> "idle", trace |-> <<>>, uncaught |-> NoExc]

\* No function is called on its own while the page runs.
NoCall == [fn |-> "none", arg |-> <<>>, result |-> <<>>]

Init ==
    /\ page = InitialPage
    /\ runs = [i \in Runs |-> NotStarted]
    /\ infos = [k \in Infos |-> [pc |-> "idle"]]
    /\ requests = EmptyBag
    /\ call = NoCall

EvaluationRequest ==
    [ method |-> "POST", url |-> "/api/evaluate",
      body |-> [qrels_file |-> "data/qrels.txt", operator |-> "AND"] ]

MetricsInfoRequest == [method |-> "GET", url |-> "/api/metrics/details"]

EvaluationErrorPrefix == "Oshibka pri vypolnenii otsenki: "

MetricsInfoError == "Oshibka pri zagruzke informatsii o metrikah"

\* runEvaluation that leaves the banner of the previous run in place.
runEvaluationStart_KeepsError(m) == Call(hideResults(showLoading(m)), "fetch")

\* runEvaluation up to its first await.
runEvaluationStart(m) == Call(hideError(hideResults(showLoading(m))), "fetch")

\* The branch with the server's message prefixed like a caught exception.
runEvaluationBranch_Prefixed(m, data) ==
    IF "success" \in DOMAIN data /\ data.success
    THEN displayResults(m, Get(data, "metrics"), Get(data, "plots"),
                        InterpolateText(data, "operator"))
    ELSE showError(m, EvaluationErrorPrefix \o data.error)

\* if (data.success) ... else ...
runEvaluationBranch(m, data) ==
    IF "success" \in DOMAIN data /\ data.success
    THEN displayResults(m, Get(data, "metrics"), Get(data, "plots"),
                        InterpolateText(data, "operator"))
    ELSE showError(m, data.error)

\* A catch block that swallows the exception and shows nothing.
runEvaluationCatch_Silent(m) == [m EXCEPT !.exc = NoExc]

\* A catch block that clears Loading itself, before the finally block does.
runEvaluationCatch_HidesLoading(m) ==
    IF m.exc # NoExc
    THEN hideLoading(showError([m EXCEPT !.exc = NoExc], EvaluationErrorPrefix \o m.exc))
    ELSE m

\* catch (error) { showError(prefix + error.message) }
runEvaluationCatch(m) ==
    IF m.exc # NoExc
    THEN showError([m EXCEPT !.exc = NoExc], EvaluationErrorPrefix \o m.exc)
    ELSE m

\* Loading cleared on the success path only: skipped once showError ran.
runEvaluationFinally_NotOnError(m) ==
    IF \E n \in 1..Len(m.log) : m.log[n] = "showError" THEN m ELSE hideLoading(m)

\* finally { hideLoading() }
runEvaluationFinally(m) == hideLoading(m)

\* The catch block of runEvaluation copied with its finally block.
showMetricsInfoCatch_HidesLoading(m) ==
    IF m.exc # NoExc
    THEN hideLoading(showError([m EXCEPT !.exc = NoExc], MetricsInfoError))
    ELSE m

\* catch (error) { showError(fixed message) }
showMetricsInfoCatch(m) ==
    IF m.exc # NoExc
    THEN showError([m EXCEPT !.exc = NoExc], MetricsInfoError)
    ELSE m

\* runEvaluation from the rejection of an awaited promise on: catch, finally.
runEvaluationRejected(p, e) ==
    runEvaluationFinally(runEvaluationCatch(Throw(Machine(p), e)))

\* runEvaluation from the result of response.json() on: branch, catch, finally.
runEvaluationParsed(p, data) ==
    runEvaluationFinally(runEvaluationCatch(runEvaluationBranch(Machine(p), data)))

\* showMetricsInfo from the rejection of an awaited promise on: catch.
showMetricsInfoRejected(p, e) == showMetricsInfoCatch(Throw(Machine(p), e))

\* showMetricsInfo from the result of response.json() on: render, catch.
showMetricsInfoParsed(p, metricsInfo) ==
    showMetricsInfoCatch(displayMetricsInfo(Machine(p), metricsInfo))

\* The invocation slots are taken in order.
Free(invocations, i) ==
    /\ invocations[i].pc = "idle"
    /\ \A j \in DOMAIN invocations : j < i => invocations[j].pc # "idle"

Finish(run, m) ==
    [pc |-> "done", trace |-> run.trace \o m.log, uncaught |-> m.exc]

(***************************************************************************)
(* Actions.                                                                *)
(***************************************************************************)
\* A click on the run button: runEvaluation up to await fetch(...).
RunEvaluation(i) ==
    /\ Free(runs, i)
    /\ LET m == runEvaluationStart(Machine(page)) IN
        /\ page' = m.page
        /\ runs' = [runs EXCEPT ![i].pc = "fetch", ![i].trace = m.log]
    /\ requests' = requests (+) SetToBag({EvaluationRequest})
    /\ UNCHANGED <<infos, call>>

\* fetch() resolved: runEvaluation goes on to await response.json().
EvaluateFetched(i) ==
    /\ runs[i].pc = "fetch"
    /\ runs' = [runs EXCEPT ![i].pc = "json", ![i].trace = Append(@, "response.json")]
    /\ UNCHANGED <<page, infos, requests, call>>

\* The awaited promise rejected with an exception of message e: catch, finally.
EvaluateFailed(i, e) ==
    /\ \/ runs[i].pc = "fetch" /\ e \in FetchErrors
       \/ runs[i].pc = "json" /\ e \in JsonErrors
    /\ LET m == runEvaluationRejected(page, e) IN
        /\ page' = m.page
        /\ runs' = [runs EXCEPT ![i] = Finish(@, m)]
    /\ UNCHANGED <<infos, requests, call>>

\* response.json() resolved with data: branch, catch, finally.
EvaluateParsed(i, data) ==
    /\ runs[i].pc = "json"
    /\ LET m == runEvaluationParsed(page, data) IN
        /\ page' = m.page
        /\ runs' = [runs EXCEPT ![i] = Finish(@, m)]
    /\ UNCHANGED <<infos, requests, call>>

\* A click on the metrics-info button: showMetricsInfo up to await fetch(...).
ShowMetricsInfo(k) ==
    /\ Free(infos, k)
    /\ infos' = [infos EXCEPT ![k].pc = "fetch"]
    /\ requests' = requests (+) SetToBag({MetricsInfoRequest})
    /\ UNCHANGED <<page, runs, call>>

InfoFetched(k) ==
    /\ infos[k].pc = "fetch"
    /\ infos' = [infos EXCEPT ![k].pc = "json"]
    /\ UNCHANGED <<page, runs, requests, call>>

InfoFailed(k, e) ==
    /\ \/ infos[k].pc = "fetch" /\ e \in FetchErrors
       \/ infos[k].pc = "json" /\ e \in JsonErrors
    /\ page' = showMetricsInfoRejected(page, e).page
    /\ infos' = [infos EXCEPT ![k].pc = "done"]
    /\ UNCHANGED <<runs, requests, call>>

InfoParsed(k, metricsInfo) ==
    /\ infos[k].pc = "json"
    /\ page' = showMetricsInfoParsed(page, metricsInfo).page
    /\ infos' = [infos EXCEPT ![k].pc = "done"]
    /\ UNCHANGED <<runs, requests, call>>

\* A click on the close control of the modal.
CloseModal ==
    /\ page' = [page EXCEPT !.metricsModal.hidden = TRUE]
    /\ UNCHANGED <<runs, infos, requests, call>>

\* A window listener that closes the modal on a click anywhere.
WindowClick_AnyTarget(target) ==
    /\ page' = [page EXCEPT !.metricsModal.hidden = TRUE]
    /\ UNCHANGED <<runs, infos, requests, call>>

\* The click listener of window.
WindowClick(target) ==
    /\ page' = IF target = "metricsModal"
               THEN [page EXCEPT !.metricsModal.hidden = TRUE]
               ELSE page
    /\ UNCHANGED <<runs, infos, requests, call>>

Next ==
    \/ \E i \in Runs : RunEvaluation(i)
    \/ \E i \in Runs : EvaluateFetched(i)
    \/ \E i \in Runs, e \in FetchErrors \cup JsonErrors : EvaluateFailed(i, e)
    \/ \E i \in Runs, data \in EvaluateBodies : EvaluateParsed(i, data)
    \/ \E k \in Infos : ShowMetricsInfo(k)
    \/ \E k \in Infos : InfoFetched(k)
    \/ \E k \in Infos, e \in FetchErrors \cup JsonErrors : InfoFailed(k, e)
    \/ \E k \in Infos, metricsInfo \in InfoBodies : InfoParsed(k, metricsInfo)
    \/ CloseModal
    \/ \E target \in ClickTargets : WindowClick(target)

Spec == Init /\ [][Next]_vars


\* Every request that was issued settles, and the continuation waiting for
\* it is run: the event loop runs every task that is queued.
FairSpec ==
    /\ Spec
    /\ \A i \in Runs :
         WF_vars(\/ EvaluateFetched(i)
                 \/ \E e \in FetchErrors \cup JsonErrors : EvaluateFailed(i, e)
                 \/ \E data \in EvaluateBodies : EvaluateParsed(i, data))
    /\ \A k \in Infos :
         WF_vars(\/ InfoFetched(k)
                 \/ \E e \in FetchErrors \cup JsonErrors : InfoFailed(k, e)
                 \/ \E metricsInfo \in InfoBodies : InfoParsed(k, metricsInfo))

(***************************************************************************)
(* Vocabulary of the properties.                                           *)
(***************************************************************************)
LoadingVisible == ~page.loadingElement.hidden

ResultsVisible == ~page.resultsElement.hidden

ErrorVisible == ~page.errorMessageElement.hidden

ErrorText == page.errorMessageElement.textContent

InFlight(i) == runs[i].pc \in {"fetch", "json"}

Occurrences(seq, x) == Cardinality({n \in 1..Len(seq) : seq[n] = x})

Position(seq, x) == CHOOSE n \in 1..Len(seq) : seq[n] = x

Made(run, name) == \E n \in 1..Len(run.trace) : run.trace[n] = name

\* C1: at most one of the Loading indicator, the Results panel and the
\* Error banner is visible in every reachable state.
C1_AtMostOneVisible ==
    Cardinality({ e \in {"loadingElement", "resultsElement", "errorMessageElement"} :
                    ~page[e].hidden }) <= 1

\* C2: whenever a runEvaluation request is in flight (issued and not yet
\* settled), the Loading indicator is visible, also when two requests
\* overlap and settle at different times.
C2_LoadingWhileInFlight ==
    (\E i \in Runs : InFlight(i)) => LoadingVisible


\* C3: Loading is never left visible: in every reachable state with no
\* runEvaluation request in flight the Loading indicator is hidden, and
\* (every request settling) every runEvaluation invocation that was started
\* eventually returns having called hideLoading.
C3_LoadingNeverLeft ==
    /\ []((\A i \in Runs : ~InFlight(i)) => ~LoadingVisible)
    /\ \A i \in Runs :
         (runs[i].pc # "idle") ~> (runs[i].pc = "done" /\ Made(runs[i], "hideLoading"))

\* A run that ended in the Error state, with nothing in flight, and the
\* Loading indicator hidden.
C3_Witness ==
    /\ \A i \in Runs : ~InFlight(i)
    /\ \E i \in Runs : runs[i].pc = "done" /\ Made(runs[i], "showError")
                       /\ Made(runs[i], "hideLoading")
    /\ ErrorVisible /\ ~LoadingVisible

\* C4: the calls of one runEvaluation invocation come in the fixed order
\* showLoading (with hideResults, hideError), await of the request, exactly
\* one of showResults and showError, hideLoading; hideLoading is called
\* exactly once, as the last call, and not before the request has settled
\* and the branch was taken.
C4_FixedOrder ==
    \A i \in Runs :
        LET t == runs[i].trace IN
        /\ runs[i].pc # "idle" =>
               SubSeq(t, 1, 4) = <<"showLoading", "hideResults", "hideError", "fetch">>
        /\ runs[i].pc # "done" =>
               /\ Occurrences(t, "hideLoading") = 0
               /\ Occurrences(t, "showResults") + Occurrences(t, "showError") = 0
        /\ runs[i].pc = "done" =>
               /\ Occurrences(t, "showLoading") = 1
               /\ Occurrences(t, "fetch") = 1
               /\ Occurrences(t, "showResults") + Occurrences(t, "showError") = 1
               /\ Occurrences(t, "hideLoading") = 1
               /\ t[Len(t)] = "hideLoading"
               /\ \A n \in 1..Len(t) :
                      t[n] \in {"showResults", "showError"} =>
                          /\ Position(t, "fetch") < n
                          /\ n < Position(t, "hideLoading")

\* Two finished invocations, one through showResults and one through
\* showError.
C4_Witness ==
    /\ \E i \in Runs : runs[i].pc = "done" /\ Made(runs[i], "showResults")
    /\ \E i \in Runs : runs[i].pc = "done" /\ Made(runs[i], "showError")

\* C5: a click on the run button, in whatever view state, leaves Loading
\* visible and the Results panel and the Error banner hidden when the
\* request is awaited, and issues exactly one POST.
C5_StartEntersLoading ==
    [][\A i \in Runs :
          RunEvaluation(i) =>
              /\ LoadingVisible' /\ ~ResultsVisible' /\ ~ErrorVisible'
              /\ runs'[i].pc = "fetch"
              /\ CopiesIn(EvaluationRequest, requests')
                     = CopiesIn(EvaluationRequest, requests) + 1
              /\ CopiesIn(MetricsInfoRequest, requests')
                     = CopiesIn(MetricsInfoRequest, requests)]_vars

\* A second run, started when the first had ended in the Error state, is
\* awaiting its request: the Error state was left for Loading.
C5_Witness ==
    /\ runs[1].pc = "done" /\ Made(runs[1], "showError")
    /\ runs[2].pc = "fetch"
    /\ \A k \in Infos : infos[k].pc = "idle"
    /\ LoadingVisible /\ ~ResultsVisible /\ ~ErrorVisible
    /\ CopiesIn(EvaluationRequest, requests) = 2


\* A response of the documented shape with success true: metrics with the
\* four macro values and complete per-query entries, plots, operator.
WellFormedSuccess(data) ==
    /\ {"success", "metrics", "plots", "operator"} \subseteq DOMAIN data
    /\ data.success
    /\ {"macro", "per_query"} \subseteq DOMAIN data.metrics
    /\ \A n \in 1..Len(MetricList) :
          /\ MetricList[n].key \in DOMAIN data.metrics.macro
          /\ \A q \in 1..Len(data.metrics.per_query) :
                 MetricList[n].key \in DOMAIN data.metrics.per_query[q][2]

\* The calls an action added to the trace of an invocation.
NewCalls(before, after) == SubSeq(after.trace, Len(before.trace) + 1, Len(after.trace))

\* C6: when the only runEvaluation request in flight settles with a
\* well-formed success response, and the Error banner was not raised since
\* the run began (no other run, no metrics-info failure in between), the
\* report is assembled and the view is Results: Results visible, Error
\* hidden, Loading hidden.
C6_SuccessShowsResults ==
    [][\A i \in Runs, data \in EvaluateBodies :
          ( /\ EvaluateParsed(i, data)
            /\ WellFormedSuccess(data)
            /\ \A j \in Runs \ {i} : ~InFlight(j)
            /\ ~ErrorVisible )
          => /\ ResultsVisible' /\ ~ErrorVisible' /\ ~LoadingVisible'
             /\ NewCalls(runs[i], runs'[i]) =
                    << "displayResults", "displayMacroMetrics", "displayPlots",
                       "displayDetailedMetrics", "showResults", "hideLoading" >>
             /\ Len(page'.macroMetrics) = Len(MetricList)
             /\ Len(page'.detailedMetrics) = 1]_vars

\* The first run, the only one started, has shown its results.
C6_Witness ==
    /\ runs[1].pc = "done" /\ Made(runs[1], "showResults")
    /\ \A j \in Runs \ {1} : runs[j].pc = "idle"
    /\ ResultsVisible /\ ~ErrorVisible /\ ~LoadingVisible
    /\ Len(page.macroMetrics) = Len(MetricList)

InfoStep(k) ==
    \/ ShowMetricsInfo(k)
    \/ InfoFetched(k)
    \/ \E e \in FetchErrors \cup JsonErrors : InfoFailed(k, e)
    \/ \E metricsInfo \in InfoBodies : InfoParsed(k, metricsInfo)

\* A step of showMetricsInfo invocation k in which the GET fails: fetch()
\* or response.json() rejects, or displayMetricsInfo throws.
InfoFailureStep(k) ==
    \/ \E e \in FetchErrors \cup JsonErrors : InfoFailed(k, e)
    \/ \E metricsInfo \in InfoBodies :
          /\ InfoParsed(k, metricsInfo)
          /\ displayMetricsInfo(Machine(page), metricsInfo).exc # NoExc

\* C9 as stated: no step of showMetricsInfo, on success or on failure,
\* changes the visibility of the Loading indicator, the Results panel or the
\* Error banner, nor the text of the Error banner.
C9_InfoNeverTouchesView ==
    [][\A k \in Infos :
          InfoStep(k) =>
              /\ page'.loadingElement = page.loadingElement
              /\ page'.resultsElement = page.resultsElement
              /\ page'.errorMessageElement = page.errorMessageElement]_vars

\* C9 as amended: no step of showMetricsInfo changes the visibility of the
\* Loading indicator or of the Results panel; a step that does not fail
\* leaves the Error banner and its text unchanged too, and a failing step
\* changes of the three only the Error banner, made visible with the fixed
\* metrics-info message.
C9_InfoTouchesOnlyErrorOnFailure ==
    [][\A k \in Infos :
          InfoStep(k) =>
              /\ page'.loadingElement = page.loadingElement
              /\ page'.resultsElement = page.resultsElement
              /\ IF InfoFailureStep(k)
                 THEN page'.errorMessageElement =
                          [hidden |-> FALSE, textContent |-> MetricsInfoError]
                 ELSE page'.errorMessageElement = page.errorMessageElement]_vars

\* A metrics-info request failed while a run was in flight and another had
\* shown its results: Loading and Results are as the runs left them.
C9_Witness ==
    /\ \E k \in Infos : infos[k].pc = "done"
    /\ \E i \in Runs : InFlight(i)
    /\ ResultsVisible
    /\ ErrorVisible /\ ErrorText = MetricsInfoError

\* C10: when the GET of showMetricsInfo fails (fetch rejects, the body is
\* unparsable, rendering throws), the Error banner is visible with one
\* fixed message whatever the exception, the modal is not opened by that
\* invocation, and the visibility of Loading and Results is unchanged.
C10_InfoFailureFixedMessage ==
    [][\A k \in Infos :
          InfoFailureStep(k) =>
              /\ ErrorVisible' /\ ErrorText' = MetricsInfoError
              /\ page'.metricsModal = page.metricsModal
              /\ page'.loadingElement = page.loadingElement
              /\ page'.resultsElement = page.resultsElement
              /\ infos'[k].pc = "done"]_vars

\* Rendering the documentation threw at its second entry: the first entry
\* is in the container, the fixed message is shown and the modal is closed.
C10_Witness ==
    /\ infos[1].pc = "done"
    /\ \A k \in Infos \ {1} : infos[k].pc = "idle"
    /\ Len(page.metricsInfo) = 1
    /\ ErrorVisible /\ ErrorText = MetricsInfoError
    /\ page.metricsModal.hidden


\* C11: Idle is never re-entered: once a runEvaluation has started, at least
\* one of the Loading indicator, the Results panel and the Error banner is
\* visible in every reachable state.
C11_IdleNeverReentered ==
    (\E i \in Runs : runs[i].pc # "idle")
        => (LoadingVisible \/ ResultsVisible \/ ErrorVisible)

\* Every run has returned, the last one through the catch block, and the
\* modal was opened meanwhile: the view is Error, not Idle.
C11_Witness ==
    /\ \A i \in Runs : runs[i].pc = "done"
    /\ \E i \in Runs : Made(runs[i], "displayResults") /\ Made(runs[i], "showError")
    /\ \E k \in Infos : infos[k].pc = "done"
    /\ ~LoadingVisible /\ ~ResultsVisible /\ ErrorVisible

ModalOpen == ~page.metricsModal.hidden

\* The three panels' class lists and the banner's text.
MainView == <<page.loadingElement, page.resultsElement, page.errorMessageElement>>

\* C12: the modal is an independent overlay.  It becomes open only in the
\* step of showMetricsInfo that rendered the documentation without an
\* exception; the close control closes it; a click closes it when its
\* target is the modal itself and leaves it as it is otherwise; no step that
\* opens or closes it changes Loading, Results or Error; no step of
\* runEvaluation changes it.
C12_ModalIndependent ==
    [][ /\ (~ModalOpen /\ ModalOpen') =>
               \E k \in Infos, metricsInfo \in InfoBodies :
                   /\ InfoParsed(k, metricsInfo)
                   /\ displayMetricsInfo(Machine(page), metricsInfo).exc = NoExc
        /\ \A k \in Infos, metricsInfo \in InfoBodies :
               ( /\ InfoParsed(k, metricsInfo)
                 /\ displayMetricsInfo(Machine(page), metricsInfo).exc = NoExc )
               => ModalOpen'
        /\ CloseModal => ~ModalOpen'
        /\ \A target \in ClickTargets :
               WindowClick(target) =>
                   IF target = "metricsModal" THEN ~ModalOpen'
                   ELSE ModalOpen' = ModalOpen
        /\ (ModalOpen' # ModalOpen) => MainView' = MainView
        /\ (runs' # runs) => ModalOpen' = ModalOpen ]_vars

\* The modal is open over the Loading state of a run in flight.
C12_Witness ==
    /\ ModalOpen
    /\ \E i \in Runs : InFlight(i)
    /\ LoadingVisible /\ ~ResultsVisible /\ ~ErrorVisible
    /\ Len(page.metricsInfo) = 1


(***************************************************************************)
(* The classifier on its own: a metric value of the grid 0..Scale is       *)
(* chosen and one of the functions is called on it.                        *)
(***************************************************************************)
Values == 0..Scale

\* Query identifiers of every length up to MaxQueryLen, over the digits and
\* with at most one double quote (as in a phrase query).
MaxQueryLen == 33

RECURSIVE Digits(_)
Digits(n) ==
    IF n = 0 THEN ""
    ELSE Digits(n - 1) \o SubSeq("0123456789", ((n - 1) % 10) + 1, ((n - 1) % 10) + 1)

QueryText(n, q) ==
    IF q = 0 THEN Digits(n)
    ELSE SubSeq(Digits(n), 1, q - 1) \o "\"" \o SubSeq(Digits(n), q + 1, n)

Queries == UNION { { QueryText(n, q) : q \in 0..n } : n \in 0..MaxQueryLen }

Calling(fn, arg) == [fn |-> fn, arg |-> arg, result |-> <<>>]

Returns(fn, result) ==
    /\ call.fn = fn
    /\ call.result = <<>>
    /\ call' = [call EXCEPT !.result = <<result>>]
    /\ UNCHANGED <<page, runs, infos, requests>>

ClassifierInit ==
    /\ page = InitialPage
    /\ runs = [i \in Runs |-> NotStarted]
    /\ infos = [k \in Infos |-> [pc |-> "idle"]]
    /\ requests = EmptyBag
    /\ call \in {Calling(fn, v) : fn \in {"getValueClass", "getStatus"}, v \in Values}
               \cup {Calling("TableRow", query) : query \in Queries}

\* getValueClass(value), as displayMacroMetrics and the table rows call it.
CallGetValueClass == Returns("getValueClass", getValueClass(call.arg))

\* getStatusClass(value) and getStatusText(value), as a table row calls them
\* on the same F-measure.
CallGetStatus ==
    Returns("getStatus", [ statusClass |-> getStatusClass(call.arg),
                           statusText  |-> getStatusText(call.arg) ])

\* The row the forEach of displayDetailedMetrics builds for one query.
CallTableRow == Returns("TableRow", TableRow(call.arg, QueryA))

ClassifierNext == CallGetValueClass \/ CallGetStatus \/ CallTableRow

ClassifierSpec == ClassifierInit /\ [][ClassifierNext]_vars

Returned(fn) == call.fn = fn /\ call.result # <<>>

\* C13: for every value v of the grid over [0,1], getValueClass returns a
\* tier, high iff v >= 0.7, medium iff 0.4 <= v < 0.7 and low iff v < 0.4;
\* the values 0.7 and 0.4 themselves get the higher tier.
C13_VisualTier ==
    Returned("getValueClass") =>
        LET v == call.arg
            tier == call.result[1]
        IN  /\ tier \in {"high", "medium", "low"}
            /\ tier = "high" <=> 10 * v >= 7 * Scale
            /\ tier = "medium" <=> (10 * v >= 4 * Scale /\ 10 * v < 7 * Scale)
            /\ tier = "low" <=> 10 * v < 4 * Scale

\* The boundary 0.7 has been classified, as high.
C13_Witness ==
    /\ Returned("getValueClass")
    /\ 10 * call.arg = 7 * Scale
    /\ call.result[1] = "high"

\* The tier a status class and a status text denote.
StatusTierOfClass ==
    [ c \in {"status-excellent", "status-good", "status-fair", "status-poor"} |->
        CASE c = "status-excellent" -> "Excellent"
          [] c = "status-good" -> "Good"
          [] c = "status-fair" -> "Fair"
          [] c = "status-poor" -> "Poor" ]

StatusTierOfText ==
    [ t \in {"Otlichno", "Horosho", "Udovletvoritelno", "Ploho"} |->
        CASE t = "Otlichno" -> "Excellent"
          [] t = "Horosho" -> "Good"
          [] t = "Udovletvoritelno" -> "Fair"
          [] t = "Ploho" -> "Poor" ]

\* C14: for every F-measure v of the grid over [0,1] the row status is
\* Excellent iff v >= 0.8, Good iff 0.6 <= v < 0.8, Fair iff 0.4 <= v < 0.6
\* and Poor iff v < 0.4, the boundaries in the higher tier; the status class
\* and the status text denote the same tier.
C14_StatusTier ==
    Returned("getStatus") =>
        LET v == call.arg
            tier == StatusTierOfClass[call.result[1].statusClass]
        IN  /\ tier = "Excellent" <=> 10 * v >= 8 * Scale
            /\ tier = "Good" <=> (10 * v >= 6 * Scale /\ 10 * v < 8 * Scale)
            /\ tier = "Fair" <=> (10 * v >= 4 * Scale /\ 10 * v < 6 * Scale)
            /\ tier = "Poor" <=> 10 * v < 4 * Scale
            /\ StatusTierOfText[call.result[1].statusText] = tier

\* The boundary 0.6 has been classified, as Good by class and by text.
C14_Witness ==
    /\ Returned("getStatus")
    /\ 10 * call.arg = 6 * Scale
    /\ call.result[1] = [statusClass |-> "status-good", statusText |-> "Horosho"]


\* C18: for a query identifier of length L the displayed label is the
\* identifier itself when L <= 30 and its first 30 characters followed by
\* "..." when L > 30, so its length is min(L,30) plus 3 iff L > 30; and the
\* row's title attribute carries the full identifier.
C18_LabelAndTitle ==
    Returned("TableRow") =>
        LET query == call.arg
            L == Len(query)
            row == call.result[1]
        IN  /\ L <= 30 => row.label = query
            /\ L > 30 => row.label = SubSeq(query, 1, 30) \o "..."
            /\ Len(row.label) = (IF L < 30 THEN L ELSE 30) + (IF L > 30 THEN 3 ELSE 0)
            /\ row.title = query

(***************************************************************************)
(* The report assembler on its own: runEvaluation invocations that do not  *)
(* overlap, each run from the click to the end of its finally block, over  *)
(* responses that vary every part of the payload.                          *)
(***************************************************************************)
QueryLow ==
    [ precision |-> 2000, recall |-> 8000, f_measure |-> 3200, accuracy |-> 4000,
      true_positive |-> 2, false_positive |-> 8, false_negative |-> 0 ]

\* An entry without precision: toFixed throws in the row.
QueryNoPrecision ==
    [ recall |-> 8000, f_measure |-> 3200, accuracy |-> 4000,
      true_positive |-> 2, false_positive |-> 8, false_negative |-> 0 ]

\* A macro object without recall: toFixed throws after the first card.
MacroNoRecall == [precision |-> 8200, f_measure |-> 7250, accuracy |-> 9000]

\* per_query objects, as their entries in iteration order.
PerQueryMaps ==
    { <<>>,
      << <<"q1", QueryA>> >>,
      << <<"q1", QueryA>>, <<"q2", QueryLow>> >>,
      << <<"q2", QueryLow>>, <<"q1", QueryA>> >> }

\* plots objects: {} , either plot, both, and a plot that is the empty string.
PlotSets ==
    { [key \in {} |-> ""],
      [precision_recall |-> "iVBORw0KGgo"],
      [metrics_comparison |-> "R0lGODlh"],
      [precision_recall |-> "iVBORw0KGgo", metrics_comparison |-> "R0lGODlh"],
      [precision_recall |-> "", metrics_comparison |-> "R0lGODlh"] }

Operators == {"AND", "OR"}

CompleteResponses ==
    { [ success |-> TRUE,
        metrics |-> [macro |-> macro, per_query |-> perQuery],
        plots |-> plots,
        operator |-> operator ] :
      macro \in {MacroA, MacroC}, perQuery \in PerQueryMaps,
      plots \in PlotSets, operator \in Operators }

\* success: true responses with a part missing.
IncompleteResponses ==
    { ResponseNoMetrics,
      [ResponseA EXCEPT !.metrics = [per_query |-> << <<"q1", QueryA>> >>]],
      [ResponseA EXCEPT !.metrics.macro = MacroNoRecall],
      [success |-> TRUE, metrics |-> ResponseA.metrics, operator |-> "AND"],
      [ResponseC EXCEPT !.metrics = [macro |-> MacroC]],
      [ResponseC EXCEPT !.metrics.per_query = << <<"q1", QueryNoPrecision>> >>],
      [ResponseC EXCEPT !.metrics.per_query =
                            << <<"q1", QueryA>>, <<"q2", QueryNoPrecision>> >>] }

AssemblerBodies == CompleteResponses \cup IncompleteResponses \cup {ResponseB}

AssemblerInit == Init

\* One whole runEvaluation invocation whose response parses to data; repeated
\* tells whether the invocation before it received the same data.
EvaluateOnce(data) ==
    LET start == runEvaluationStart(Machine(page))
        m == runEvaluationParsed(start.page, data)
    IN  /\ page' = m.page
        /\ call' = [ fn |-> "runEvaluation",
                     arg |-> <<data>>,
                     result |-> << [ log |-> start.log \o <<"response.json">> \o m.log,
                                     repeated |-> call.arg = <<data>> ] >> ]
        /\ UNCHANGED <<runs, infos, requests>>

\* One whole runEvaluation invocation whose fetch rejects with message e.
EvaluateOnceRejected(e) ==
    LET start == runEvaluationStart(Machine(page))
        m == runEvaluationRejected(start.page, e)
    IN  /\ page' = m.page
        /\ call' = [ fn |-> "runEvaluation",
                     arg |-> <<>>,
                     result |-> << [ log |-> start.log \o m.log,
                                     repeated |-> FALSE ] >> ]
        /\ UNCHANGED <<runs, infos, requests>>

AssemblerNext ==
    \/ \E data \in AssemblerBodies : EvaluateOnce(data)
    \/ \E e \in FetchErrors : EvaluateOnceRejected(e)

AssemblerSpec == AssemblerInit /\ [][AssemblerNext]_vars

\* The last invocation received a response and data is what it parsed to.
Received(data) == call.fn = "runEvaluation" /\ call.arg = <<data>>

Logged(name) == \E n \in 1..Len(call.result[1].log) : call.result[1].log[n] = name

\* The parts of a success payload that are of the documented shape.
HasMacro(data) ==
    /\ {"success", "metrics"} \subseteq DOMAIN data
    /\ data.success
    /\ "macro" \in DOMAIN data.metrics
    /\ \A n \in 1..Len(MetricList) : MetricList[n].key \in DOMAIN data.metrics.macro

HasPlots(data) == HasMacro(data) /\ "plots" \in DOMAIN data

HasPerQuery(data) ==
    /\ HasPlots(data)
    /\ "per_query" \in DOMAIN data.metrics
    /\ \A q \in 1..Len(data.metrics.per_query) :
          \A n \in 1..Len(MetricList) :
              MetricList[n].key \in DOMAIN data.metrics.per_query[q][2]

\* The status tier of an F-measure, by the documented thresholds.
StatusTier(v) ==
    IF 10 * v >= 8 * Scale THEN "Excellent"
    ELSE IF 10 * v >= 6 * Scale THEN "Good"
    ELSE IF 10 * v >= 4 * Scale THEN "Fair"
    ELSE "Poor"

\* C15: after a payload whose three sections can be assembled, the detailed
\* section holds the single no-data notice (and no table) iff the per-query
\* map is empty; otherwise it holds one table with exactly one row per
\* entry, the k-th row being the k-th entry of the map's iteration order,
\* with that entry's TP/FP/FN triple and the status tier of its F-measure.
C15_DetailedSection ==
    \A data \in AssemblerBodies :
        Received(data) /\ HasPerQuery(data) =>
            LET entries == data.metrics.per_query
                section == page.detailedMetrics
            IN  /\ Len(section) = 1
                /\ section[1].tag = "p" <=> Len(entries) = 0
                /\ Len(entries) > 0 =>
                     /\ section[1].tag = "table"
                     /\ Len(section[1].rows) = Len(entries)
                     /\ \A k \in 1..Len(entries) :
                          LET row == section[1].rows[k]
                              metrics == entries[k][2]
                          IN  /\ row.label = entries[k][1]
                              /\ row.stats = ToString(metrics.true_positive) \o "/"
                                             \o ToString(metrics.false_positive) \o "/"
                                             \o ToString(metrics.false_negative)
                              /\ StatusTierOfClass[row.statusClass] = StatusTier(metrics.f_measure)
                              /\ StatusTierOfText[row.statusText] = StatusTier(metrics.f_measure)

\* Two entries were rendered with the worse query first (rows in map order,
\* not by value or key), after a run that had rendered the no-data notice
\* is also reachable: here the table of the reversed map.
C15_Witness ==
    /\ call.fn = "runEvaluation"
    /\ call.arg # <<>>
    /\ HasPerQuery(call.arg[1])
    /\ Len(call.arg[1].metrics.per_query) = 2
    /\ page.detailedMetrics[1].tag = "table"
    /\ page.detailedMetrics[1].rows[1].label = "q2"
    /\ page.detailedMetrics[1].rows[1].stats = "2/8/0"
    /\ page.detailedMetrics[1].rows[1].statusText = "Ploho"
    /\ page.detailedMetrics[1].rows[2].label = "q1"
    /\ page.detailedMetrics[1].rows[2].stats = "9/1/9"
    /\ page.detailedMetrics[1].rows[2].statusText = "Horosho"


\* The panels the plot section is to hold, first to last, when the
\* precision-recall panel is wanted iff wantPR and the metrics-comparison
\* panel iff wantMC: each named by its alt text and its image.
Panels(plots, wantPR, wantMC) ==
    (IF wantPR
     THEN << [ alt |-> "Precision-Recall Plot",
               src |-> "data:image/png;base64," \o plots.precision_recall ] >>
     ELSE <<>>)
    \o
    (IF wantMC
     THEN << [ alt |-> "Metrics Comparison Plot",
               src |-> "data:image/png;base64," \o plots.metrics_comparison ] >>
     ELSE <<>>)

PanelsShown ==
    [ n \in 1..Len(page.plotsContainer) |->
        [alt |-> page.plotsContainer[n].alt, src |-> page.plotsContainer[n].src] ]

\* C16 as stated: the plot section contains a precision-recall panel iff
\* plots has the key precision_recall and a metrics-comparison panel iff it
\* has the key metrics_comparison, precision-recall first, nothing else.
C16_PanelIffKeyPresent ==
    \A data \in AssemblerBodies :
        Received(data) /\ HasPlots(data) =>
            PanelsShown = Panels(data.plots,
                                 "precision_recall" \in DOMAIN data.plots,
                                 "metrics_comparison" \in DOMAIN data.plots)

\* C16, amended: the plot section contains a precision-recall panel iff
\* plots has the key precision_recall with a non-empty value, and a
\* metrics-comparison panel iff it has the key metrics_comparison with a
\* non-empty value; when both are there the precision-recall panel comes
\* first; a plot that is absent yields no panel and no placeholder and is not
\* an error (displayDetailedMetrics is reached); the section holds nothing
\* but the panels of this payload, whatever the runs before it showed.
C16_PanelIffNonEmpty ==
    \A data \in AssemblerBodies :
        Received(data) /\ HasPlots(data) =>
            /\ PanelsShown =
                 Panels(data.plots,
                        "precision_recall" \in DOMAIN data.plots
                            /\ data.plots.precision_recall # "",
                        "metrics_comparison" \in DOMAIN data.plots
                            /\ data.plots.metrics_comparison # "")
            /\ \A n \in 1..Len(page.plotsContainer) :
                   \E operator \in Operators :
                       page.plotsContainer[n].h4 \in
                           { "Precision-Recall po zaprosam (Operator: " \o operator \o ")",
                             "Sravnenie metrik kachestva (Operator: " \o operator \o ")" }
            /\ Logged("displayDetailedMetrics")

\* A payload with only the metrics-comparison plot was assembled: one panel,
\* the comparison, is in the section and the Results panel was revealed.
C16_Witness ==
    /\ call.fn = "runEvaluation"
    /\ call.arg # <<>>
    /\ HasPlots(call.arg[1])
    /\ DOMAIN call.arg[1].plots = {"metrics_comparison"}
    /\ Len(page.plotsContainer) = 1
    /\ page.plotsContainer[1].alt = "Metrics Comparison Plot"
    /\ Logged("showResults")


\* The visual tier of a metric value, by the documented thresholds.
VisualTier(v) ==
    IF 10 * v >= 7 * Scale THEN "high"
    ELSE IF 10 * v >= 4 * Scale THEN "medium"
    ELSE "low"

\* The metrics of the macro section in their documented order, as the keys
\* of the payload and as the names the cards carry.
MacroOrder == <<"precision", "recall", "f_measure", "accuracy">>

MacroNames == <<"Precision", "Recall", "F-measure", "Accuracy">>

\* C17: after a success payload that carries the four macro values, the
\* macro section holds exactly 4 cards, in the order precision, recall,
\* f_measure, accuracy, the k-th card naming the k-th metric and showing the
\* visual tier of that metric's value and the operator of the payload; the
\* cards of earlier runs are gone.
C17_MacroSection ==
    \A data \in AssemblerBodies :
        Received(data) /\ HasMacro(data) =>
            /\ Len(page.macroMetrics) = 4
            /\ \A k \in 1..4 :
                 LET card == page.macroMetrics[k] IN
                   /\ card.metricDesc = MacroNames[k]
                   /\ card.valueClass = VisualTier(data.metrics.macro[MacroOrder[k]])
                   /\ card.operatorInfo =
                        "Operator: " \o (IF "operator" \in DOMAIN data
                                         THEN data.operator ELSE "undefined")

\* Scenario A of the documentation, with operator OR, was assembled by a
\* second or later run: values 0.820/0.650/0.725/0.900, tiers
\* High/Medium/High/High.
C17_Witness ==
    /\ call.fn = "runEvaluation"
    /\ call.arg # <<>>
    /\ HasMacro(call.arg[1])
    /\ call.arg[1].metrics.macro = MacroA
    /\ call.arg[1].operator = "OR"
    /\ ~page.errorMessageElement.hidden \/ page.errorMessageElement.textContent # ""
    /\ [k \in 1..4 |-> page.macroMetrics[k].metricValue]
         = <<"0.820", "0.650", "0.725", "0.900">>
    /\ [k \in 1..4 |-> page.macroMetrics[k].valueClass]
         = <<"high", "medium", "high", "high">>
    /\ page.macroMetrics[1].operatorInfo = "Operator: OR"


\* The view model: the three sections of the report.
ViewModel(p) ==
    [ macroMetrics    |-> p.macroMetrics,
      plotsContainer  |-> p.plotsContainer,
      detailedMetrics |-> p.detailedMetrics ]

\* The report assembled once, on the page as it was loaded.
AssembledOnce(data) ==
    displayResults(Machine(InitialPage), Get(data, "metrics"), Get(data, "plots"),
                   InterpolateText(data, "operator")).page

\* C19: every invocation that assembles a payload of the documented shape
\* leaves the three sections equal to those of assembling that payload once
\* on the freshly loaded page, whatever the invocations before it had
\* received; in particular when the invocation before it had received the
\* same payload the three sections are left as they were.
C19_AssemblyIdempotent ==
    [][ \A data \in AssemblerBodies :
          (Received(data))' /\ HasPerQuery(data) =>
              /\ ViewModel(page') = ViewModel(AssembledOnce(data))
              /\ Received(data) => ViewModel(page') = ViewModel(page) ]_vars

\* The same payload, with four cards, two panels and a two-row table, has
\* been assembled twice in a row.
C19_Witness ==
    /\ call.fn = "runEvaluation"
    /\ call.arg # <<>>
    /\ HasPerQuery(call.arg[1])
    /\ call.result[1].repeated
    /\ Len(page.macroMetrics) = 4
    /\ Len(page.plotsContainer) = 2
    /\ page.detailedMetrics[1].tag = "table"
    /\ Len(page.detailedMetrics[1].rows) = 2
    /\ ~page.resultsElement.hidden


\* A success: true response whose assembly throws: metrics, a macro value,
\* plots, per_query or a metric of a per-query entry is missing.
AssemblyThrows(data) ==
    /\ "success" \in DOMAIN data
    /\ data.success
    /\ ~HasPerQuery(data)

LoggedBefore(first, second) ==
    \E i, j \in 1..Len(call.result[1].log) :
        /\ i < j
        /\ call.result[1].log[i] = first
        /\ call.result[1].log[j] = second

\* C20: an invocation calls showResults only after displayMacroMetrics,
\* displayPlots and displayDetailedMetrics, and only for a payload all three
\* assembled without exception; when the assembly of a success: true
\* response throws part-way the invocation does not call showResults and
\* leaves the Results panel hidden, the Error banner shows the prefix of a
\* transport failure followed by the exception's message, and Loading is
\* cleared by the finally block.
C20_ResultsOnlyAfterAssembly ==
    \A data \in AssemblerBodies :
        Received(data) =>
            /\ Logged("showResults") =>
                 /\ HasPerQuery(data)
                 /\ \A section \in {"displayMacroMetrics", "displayPlots",
                                    "displayDetailedMetrics"} :
                        LoggedBefore(section, "showResults")
            /\ AssemblyThrows(data) =>
                 /\ ~Logged("showResults")
                 /\ page.resultsElement.hidden
                 /\ ~page.errorMessageElement.hidden
                 /\ LET text == page.errorMessageElement.textContent
                        n == Len(EvaluationErrorPrefix)
                    IN  /\ Len(text) > n
                        /\ SubSeq(text, 1, n) = EvaluationErrorPrefix
                 /\ LoggedBefore("showError", "hideLoading")
                 /\ page.loadingElement.hidden

\* A response whose second per-query entry lacks a metric was received: the
\* macro cards and the plot panels of this payload are in place, the table
\* was not written, the banner shows the prefixed exception.
C20_Witness ==
    /\ call.fn = "runEvaluation"
    /\ call.arg # <<>>
    /\ AssemblyThrows(call.arg[1])
    /\ HasPlots(call.arg[1])
    /\ "per_query" \in DOMAIN call.arg[1].metrics
    /\ Len(call.arg[1].metrics.per_query) = 2
    /\ Logged("displayDetailedMetrics")
    /\ Len(page.macroMetrics) = 4
    /\ page.errorMessageElement.textContent =
         EvaluationErrorPrefix \o "Cannot read properties of undefined (reading 'toFixed')"
    /\ page.resultsElement.hidden
    /\ page.loadingElement.hidden


====
